---- MODULE Spec2Model ----
(***************************************************************************)
(* Model of the chat hub of PomboN9878/chat-backend.                       *)
(*                                                                         *)
(* Several specifications share the variables below.                      *)
(*                                                                         *)
(*   Spec     the hub as a whole: the Socket.IO handlers of                *)
(*            app/sockets/events.py driven by the transport (handshakes,   *)
(*            inbound events, transport closes), from the state after      *)
(*            construction (connected_user = {}).  A handler is one        *)
(*            action; the branches that the code as written never reaches  *)
(*            are part of the handler's definition all the same.           *)
(*                                                                         *)
(*   SpecRate, SpecQueue, SpecMember, SpecMessage, SpecTyping, SpecSend    *)
(*            the service layer under arbitrary concurrent callers: the    *)
(*            public coroutines of RedisClient, the services and the       *)
(*            helpers of events.py, one action per stretch of code         *)
(*            between two awaits.                                          *)
(*                                                                         *)
(* Exceptions are modelled as results: an operator that models a call      *)
(* which can raise returns a record with a field exc ("" = returned).      *)
(***************************************************************************)
EXTENDS Integers, Sequences, FiniteSets, TLC

\* ------------------------------------------------------------------ bounds
MaxEvents == 4
MaxSeed == 2
MaxTasks == 2
MaxCalls == 3
\* settings.MAX_MESSAGES_PER_MINUTE, an environment setting (default 30).
MAX_MESSAGES_PER_MINUTE == 2
\* settings.TYPING_TIMEOUT, an environment setting (default 10), in ticks
\* of the clock of the typing specification.
TYPING_TIMEOUT == 2
\* The window of check_rate_limit (its default, 60 seconds), in ticks of the
\* clock of the rate specifications.
RATE_WINDOW == 2

\* ------------------------------------------------------------- value sets
Users == {"u1", "u2", "u3"}
Sids == {"s1", "s2"}
Rooms == {"r1"}
None == "None"
NoRoom == "NoRoom"
Statuses == {"online", "offline", "away", "busy"}

\* A bearer string: absent (no such key), the empty string, or a JWT with
\* its signature validity, expiry and sub claim.
Token(kind, sig, exp, sub) == [kind |-> kind, sig |-> sig, exp |-> exp, sub |-> sub]
AbsentTok == Token("absent", FALSE, FALSE, None)
EmptyTok == Token("empty", FALSE, FALSE, None)
GoodTok(u) == Token("jwt", TRUE, FALSE, u)
BadSigTok == Token("jwt", FALSE, FALSE, "u1")
ExpiredTok == Token("jwt", TRUE, TRUE, "u1")
NoSubTok == Token("jwt", TRUE, FALSE, None)
Tokens == {GoodTok(u) : u \in Users} \cup {BadSigTok, ExpiredTok, NoSubTok, EmptyTok}

\* The auth payload of a handshake: its "token" key and its "Authorization"
\* key (scheme "absent" = no such key).
Auth(tok, scheme, cred) == [token |-> tok, scheme |-> scheme, cred |-> cred]
AuthPayloads ==
    {Auth(AbsentTok, "absent", AbsentTok)}
    \cup {Auth(t, "absent", AbsentTok) : t \in Tokens}
    \cup {Auth(AbsentTok, "Bearer", t) : t \in Tokens}
    \cup {Auth(AbsentTok, "Basic", GoodTok("u1")),
          Auth(EmptyTok, "Bearer", GoodTok("u1")),
          Auth(BadSigTok, "Bearer", GoodTok("u2"))}
\* The token query parameter of the handshake request (environ).
QueryTokens == {AbsentTok, GoodTok("u1"), ExpiredTok}
\* The handshakes clients make: every auth payload without a query token,
\* every query token without an auth payload, and both at once.
Handshakes ==
    {<<a, AbsentTok>> : a \in AuthPayloads}
    \cup {<<Auth(AbsentTok, "absent", AbsentTok), q>> : q \in QueryTokens}
    \cup {<<Auth(BadSigTok, "absent", AbsentTok), GoodTok("u1")>>,
          <<Auth(GoodTok("u2"), "absent", AbsentTok), GoodTok("u1")>>}

\* ------------------------------------------------------------------ state
VARIABLES
    conn,             \* transport: sid -> "new" | "open" | "closed"
    hs,               \* how the connect handler of sid ended
    presented,        \* what the handshake of sid carried (input history)
    connected_user,   \* events.py: user_id -> list of sids (a dict)
    sio_rooms,        \* transport rooms: room_id -> set of sids
    emitted,          \* the sio.emit calls of the handler that ran last, in
                      \* order, each with the sids it reached
    nev,              \* inbound events handled so far
    sent,             \* send_message events with a room_id received on sid
    inbound,          \* the last inbound event: its name, connection, payload
    session,          \* redis session:{u}:{sid} keys
    presence,         \* redis presence:{u}, None = no key
    queue,            \* redis queue:{u}, head first, <<>> = no key
    ratelimit,        \* redis ratelimit:{u}: value (0 = no key), ticks to
                      \* expiry (0 = no expiry)
    members_cache,    \* redis room_members:{r}, {} = no key
    typing,           \* redis typing:{r}: members ({} = no key), ticks to expiry
    room_members,     \* repository table room_members: <<room, user>>
    messages,         \* repository table messages, in insert order
    notifications,    \* repository table notifications
    task,             \* service layer: the service calls in flight
    ncalls,           \* service layer: calls made so far
    passed,           \* service layer: check_rate_limit calls that returned True
                      \* in the current window of each user
    pushed,           \* service layer: lpush count per user and message id
    delivered,        \* service layer: per user and message id, how often a
                      \* get_queued_messages call returned the envelope
    returned,         \* service layer: the last call that returned, and what
    typed,            \* service layer: per room and user, whether a
                      \* typing_start is outstanding and how long ago it was
    marked            \* service layer: the users PresenceService was last
                      \* told to be online (set_online, not set_offline since)

hubVars == <<conn, hs, presented, connected_user, sio_rooms, emitted, nev, sent,
            inbound>>
redisVars == <<session, presence, queue, ratelimit, members_cache, typing>>
dbVars == <<room_members, messages, notifications>>
logVars == <<returned, typed, marked>>
svcVars == <<task, ncalls, passed, pushed, delivered, logVars>>

\* The mutable world as one value, so that a handler is a function of it.
World ==
    [conn |-> conn, hs |-> hs, connected_user |-> connected_user,
     sio_rooms |-> sio_rooms, emitted |-> emitted,
     session |-> session, presence |-> presence, queue |-> queue,
     ratelimit |-> ratelimit, members_cache |-> members_cache,
     typing |-> typing,
     room_members |-> room_members, messages |-> messages,
     notifications |-> notifications]

Commit(w) ==
    /\ conn' = w.conn
    /\ hs' = w.hs
    /\ connected_user' = w.connected_user
    /\ sio_rooms' = w.sio_rooms
    /\ emitted' = SubSeq(w.emitted, Len(emitted) + 1, Len(w.emitted))
    /\ session' = w.session
    /\ presence' = w.presence
    /\ queue' = w.queue
    /\ ratelimit' = w.ratelimit
    /\ members_cache' = w.members_cache
    /\ typing' = w.typing
    /\ room_members' = w.room_members
    /\ messages' = w.messages
    /\ notifications' = w.notifications

\* A call's result: the world after it, its return value, the exception
\* it raised ("" = none).
Ret(w, v) == [w |-> w, ret |-> v, exc |-> ""]
Raise(w, e) == [w |-> w, ret |-> None, exc |-> e]

\* ------------------------------------------------- app/middleware/auth.py
\* Python truthiness of a bearer string: None and "" are falsy.
Falsy(token) == token.kind \in {"absent", "empty"}

\* verify_jwt_token with expiry not verified.
verify_jwt_token_no_exp(token) ==
    IF ~token.sig THEN [ok |-> FALSE, user_id |-> None]
    ELSE IF token.sub = None THEN [ok |-> FALSE, user_id |-> None]
    ELSE [ok |-> TRUE, user_id |-> token.sub]

\* jwt.decode raises JWTError on a bad signature or an expired token
\* (verify_aud is off); a payload without sub yields None.
verify_jwt_token(token) ==
    IF ~token.sig \/ token.exp THEN [ok |-> FALSE, user_id |-> None]
    ELSE IF token.sub = None THEN [ok |-> FALSE, user_id |-> None]
    ELSE [ok |-> TRUE, user_id |-> token.sub]

\* auth.token first, then "Authorization: Bearer <t>"; nothing else is read.
extract_token_from_handshake(auth_data) ==
    IF auth_data.token.kind # "absent" THEN auth_data.token
    ELSE IF auth_data.scheme = "Bearer" THEN auth_data.cred
    ELSE AbsentTok

\* --------------------------------------------- app/database/redis_client.py
\* json.dumps / json.loads of a message dict: a string, and that string
\* parsed back.
json_dumps(m) == <<"json", m>>
json_loads(e) == e[2]

\* set_user_session serializing with json.dumps: the key is written.
set_user_session_dumps(w, user_id, socket_id, data) ==
    Ret([w EXCEPT !.session = @ \cup {<<user_id, socket_id>>}], None)

\* set_user_session whose serializer fails only after the key is written.
set_user_session_late(w, user_id, socket_id, data) ==
    Raise([w EXCEPT !.session = @ \cup {<<user_id, socket_id>>}], "TypeError")

\* json.dump(data) is called without its file argument: TypeError, raised
\* while the arguments of setex are evaluated, so no key is written.
set_user_session(w, user_id, socket_id, data) == Raise(w, "TypeError")

delete_user_session(w, user_id, socket_id) ==
    [w EXCEPT !.session = @ \ {<<user_id, socket_id>>}]

set_user_online(w, user_id, status) == [w EXCEPT !.presence[user_id] = status]

set_user_offline(w, user_id) == [w EXCEPT !.presence[user_id] = None]

is_user_online(w, user_id) == w.presence[user_id] # None

\* lpush: the new envelope becomes the head of the list.
queue_message(w, user_id, message_data) ==
    [w EXCEPT !.queue[user_id] = <<json_dumps(message_data)>> \o @]

\* get_queued_messages up to its second await: lrange 0 -1.
queue_lrange(w, user_id) == w.queue[user_id]

\* get_queued_messages from its second await on: delete the key, return
\* what lrange had read, parsed.
queue_delete(w, user_id, read) ==
    Ret([w EXCEPT !.queue[user_id] = <<>>],
        [i \in 1..Len(read) |-> json_loads(read[i])])

\* lrange, then delete, with nothing running in between.
get_queued_messages(w, user_id) ==
    queue_delete(w, user_id, queue_lrange(w, user_id))

\* check_rate_limit up to its second await: get (0 = None, no key).
rate_get(w, user_id) == w.ratelimit[user_id].val

\* check_rate_limit after get returned current, as a check that counts
\* nothing.
rate_decide_free(w, user_id, limit, current) == Ret(w, current < limit)

\* check_rate_limit after get returned current, with an incr that also
\* renews the expiry of the key.
rate_decide_renew(w, user_id, limit, current) ==
    IF current = 0
    THEN Ret([w EXCEPT !.ratelimit[user_id] = [val |-> 1, ttl |-> RATE_WINDOW]], TRUE)
    ELSE IF current >= limit THEN Ret(w, FALSE)
    ELSE Ret([w EXCEPT !.ratelimit[user_id] = [val |-> @.val + 1, ttl |-> RATE_WINDOW]],
             TRUE)

\* check_rate_limit after get returned current: setex 1 with the window as
\* expiry, or refuse, or incr. incr leaves the expiry of the key as it is
\* and creates a key without expiry when there is none.
rate_decide(w, user_id, limit, current) ==
    IF current = 0
    THEN Ret([w EXCEPT !.ratelimit[user_id] = [val |-> 1, ttl |-> RATE_WINDOW]], TRUE)
    ELSE IF current >= limit THEN Ret(w, FALSE)
    ELSE Ret([w EXCEPT !.ratelimit[user_id].val = @ + 1], TRUE)

\* get, then setex / refuse / incr, with nothing running in between.
check_rate_limit(w, user_id, limit) ==
    rate_decide(w, user_id, limit, rate_get(w, user_id))

\* delete, then sadd + expire when the list is not empty.
cache_room_members(w, room_id, member_ids) ==
    [w EXCEPT !.members_cache[room_id] = member_ids]

\* None when the key does not exist (a Redis set is never empty).
get_cached_room_members(w, room_id) == w.members_cache[room_id]

\* sadd, then expire: the expiry is that of the key, the whole set.
set_typing(w, room_id, user_id, ttl) ==
    [w EXCEPT !.typing[room_id] = [members |-> @.members \cup {user_id}, ttl |-> ttl]]

\* srem; Redis drops a set when its last member goes.
remove_typing(w, room_id, user_id) ==
    [w EXCEPT !.typing[room_id] =
        IF @.members \ {user_id} = {} THEN [members |-> {}, ttl |-> 0]
        ELSE [@ EXCEPT !.members = @ \ {user_id}]]

\* ------------------------------------------------ app/services/presence.py
\* The profile row update that follows the Redis write is not part of the
\* hub's state; any exception is caught and logged.
set_online(w, user_id, status) == set_user_online(w, user_id, status)

set_offline(w, user_id) == set_user_offline(w, user_id)

presence_update_status(w, user_id, status) ==
    IF status \notin Statuses THEN w
    ELSE IF status = "offline" THEN set_user_offline(w, user_id)
    ELSE set_user_online(w, user_id, status)

\* ------------------------------------------------- app/services/message.py
\* The tables of the repository, as the rest of the code names them.
Tables ==
    {"rooms", "room_members", "messages", "message_attachments", "profiles",
     "notifications"}

\* A row of messages as insert returns it: what was given, and the columns
\* the repository fills in.
Message(id, room_id, sender_id, content) ==
    [id |-> id, room_id |-> room_id, sender_id |-> sender_id, content |-> content,
     is_edited |-> FALSE, is_deleted |-> FALSE, updated_at |-> 0]
NoMessage == Message(0, None, None, None)

\* The rows of messages with this id and this sender (select ... eq id, eq
\* sender_id); a user_id of None matches no row.
OwnedRows(w, message_id, user_id) ==
    {i \in 1..Len(w.messages) :
        w.messages[i].id = message_id /\ w.messages[i].sender_id = user_id}

\* update(values).eq('id', message_id): every row with the id gets the
\* values, its other columns stay.
UpdateRows(w, message_id, values) ==
    [w EXCEPT !.messages =
        [i \in 1..Len(@) |->
            IF @[i].id = message_id
            THEN [f \in DOMAIN @[i] |->
                     IF f \in DOMAIN values THEN values[f] ELSE @[i][f]]
            ELSE @[i]]]

\* MessageService.edit_message, with is_edited set the other way round.
service_edit_message_toggle(w, message_id, user_id, new_content, now) ==
    LET check == OwnedRows(w, message_id, user_id)
        w1 == [w EXCEPT !.messages =
                  [i \in 1..Len(@) |->
                      IF @[i].id = message_id
                      THEN [@[i] EXCEPT !.content = new_content,
                                        !.is_edited = ~@,
                                        !.updated_at = now]
                      ELSE @[i]]]
    IN IF check = {} THEN Ret(w, NoMessage)
       ELSE Ret(w1, w1.messages[CHOOSE i \in check : TRUE])

\* MessageService.edit_message, without the sender filter of its select.
service_edit_message_any(w, message_id, user_id, new_content, now) ==
    LET check == {i \in 1..Len(w.messages) : w.messages[i].id = message_id}
        w1 == UpdateRows(w, message_id,
                         [content |-> new_content, is_edited |-> TRUE,
                          updated_at |-> now])
    IN IF check = {} THEN Ret(w, NoMessage)
       ELSE Ret(w1, w1.messages[CHOOSE i \in check : TRUE])

\* MessageService.edit_message: the row must exist and be the user's; then
\* content, is_edited and updated_at are written. Nothing looks at
\* is_deleted. now is the clock reading of datetime.utcnow().
service_edit_message(w, message_id, user_id, new_content, now) ==
    LET check == OwnedRows(w, message_id, user_id)
        w1 == UpdateRows(w, message_id,
                         [content |-> new_content, is_edited |-> TRUE,
                          updated_at |-> now])
    IN IF check = {} THEN Ret(w, NoMessage)
       ELSE Ret(w1, w1.messages[CHOOSE i \in check : TRUE])

\* What delete_message returns: the id and the room of the row.
Deleted(message_id, room_id) == [message_id |-> message_id, room_id |-> room_id]
NoDeleted == Deleted(0, None)

\* MessageService.delete_message: soft delete of the user's own row.
service_delete_message(w, message_id, user_id, now) ==
    LET check == OwnedRows(w, message_id, user_id)
    IN IF check = {} THEN Ret(w, NoDeleted)
       ELSE Ret(UpdateRows(w, message_id,
                           [is_deleted |-> TRUE, content |-> None,
                            updated_at |-> now]),
                Deleted(message_id, w.messages[CHOOSE i \in check : TRUE].room_id))

\* The table create_message reads the sender's profile from.
SenderTable == "profile"

\* Insert the row (the repository assigns the id), then read the sender's
\* profile. The read names a table the repository does not have, execute()
\* raises, and the except branch returns None with the row already stored.
create_message(w, room_id, sender_id, content) ==
    LET row == Message(Len(w.messages) + 1, room_id, sender_id, content)
        w1 == [w EXCEPT !.messages = Append(@, row)]
    IN IF SenderTable \notin Tables THEN Ret(w1, NoMessage) ELSE Ret(w1, row)

\* create_message with the repository refusing the insert: execute() raises
\* or returns no data, nothing is stored, None comes back (lines 32-33,
\* 47-49).
create_message_failed(w, room_id, sender_id, content) == Ret(w, NoMessage)

\* --------------------------------------------- app/services/notification.py
\* insert(...) is never executed: the builder has no attribute data, the
\* AttributeError is caught and None is returned. No row is written.
create_notification(w, user_id, title, body, notification_type, reference_id) == w

\* ---------------------------------------------- app/sockets/events.py helpers
\* sio.emit: to one sid (its own room), to a transport room, or to every
\* connection of the namespace, minus skip_sid. One log entry per call.
emit(w, ev, data, room, skip_sid) ==
    LET live == {s \in Sids : w.conn[s] = "open"}
        scope == IF room = NoRoom THEN live
                 ELSE IF room \in Sids THEN {room} \cap live
                 ELSE IF room \in Rooms THEN w.sio_rooms[room] \cap live
                 ELSE {}
    IN [w EXCEPT !.emitted =
            Append(@, [ev |-> ev, data |-> data, to |-> scope \ {skip_sid}])]

Holds(w, u, sid) == \E i \in 1..Len(w.connected_user[u]) : w.connected_user[u][i] = sid

_get_user_id_from_sid(w, sid) ==
    LET us == {u \in DOMAIN w.connected_user : Holds(w, u, sid)}
    IN IF us = {} THEN None ELSE CHOOSE u \in us : TRUE

MembersOf(w, room_id) == {u \in Users : <<room_id, u>> \in w.room_members}

\* A non-empty cached list answers alone; otherwise the repository is read
\* and, for a member, the cache rebuilt from it.
_check_room_membership(w, user_id, room_id) ==
    LET cached_members == get_cached_room_members(w, room_id) IN
    IF cached_members # {} THEN Ret(w, user_id \in cached_members)
    ELSE LET is_member == <<room_id, user_id>> \in w.room_members IN
         IF is_member
         THEN Ret(cache_room_members(w, room_id, MembersOf(w, room_id)), TRUE)
         ELSE Ret(w, FALSE)

\* get_cached_room_members with the ephemeral store failing: the Redis
\* command raises.
get_cached_room_members_down(w, room_id) == Raise(w, "ConnectionError")

\* _check_room_membership while the ephemeral store is failing: the cache
\* read raises inside the try, the except branch logs and returns False
\* (lines 408-410, 428-430); the repository is not read.
_check_room_membership_down(w, user_id, room_id) ==
    LET r == get_cached_room_members_down(w, room_id) IN
    IF r.exc # "" THEN Ret(r.w, FALSE)
    ELSE _check_room_membership(r.w, user_id, room_id)

\* The rows _notify_offline_members loops over: the members of the room
\* other than the sender, read from the repository.
notify_members(w, room_id, sender_id) == MembersOf(w, room_id) \ {sender_id}

\* What the loop does for a member found offline: enqueue, then notify.
notify_enqueue(w, member_id, message) ==
    create_notification(queue_message(w, member_id, message), member_id,
                        "Nova mensagem", message.content, "new_message",
                        message.id)

RECURSIVE notify_loop(_, _, _)
notify_loop(w, todo, message) ==
    IF todo = {} THEN w
    ELSE LET member_id == CHOOSE m \in todo : TRUE
             w1 == IF is_user_online(w, member_id) THEN w
                   ELSE notify_enqueue(w, member_id, message)
         IN notify_loop(w1, todo \ {member_id}, message)

\* The loop with nothing running in between.
_notify_offline_members(w, room_id, sender_id, message) ==
    notify_loop(w, notify_members(w, room_id, sender_id), message)

\* --------------------------------------------- app/sockets/events.py handlers
\* list.remove(sid): the first occurrence goes.
list_remove(sockets, sid) ==
    [exc |-> "",
     list |-> LET at == {i \in 1..Len(sockets) : sockets[i] = sid}
                  first == CHOOSE i \in at : \A j \in at : i <= j
              IN IF at = {} THEN sockets
                 ELSE [i \in 1..(Len(sockets) - 1) |->
                          IF i < first THEN sockets[i] ELSE sockets[i + 1]]]

\* sockets.romove(sid): a list has no such method, AttributeError.
list_romove(sockets, sid) == [exc |-> "AttributeError", list |-> sockets]

DropKey(f, k) == [x \in DOMAIN f \ {k} |-> f[x]]
WithKey(f, k) == [x \in DOMAIN f \cup {k} |-> IF x \in DOMAIN f THEN f[x] ELSE <<>>]

\* disconnect, lines 74-82: find the user holding sid and take sid off the
\* list, the user's entry going with its last connection. Returns the user.
disconnect_unlist(w, sid) ==
    LET user_id == _get_user_id_from_sid(w, sid) IN
    IF user_id = None THEN Ret(w, None)
    ELSE LET r == list_romove(w.connected_user[user_id], sid) IN
         IF r.exc # "" THEN Raise(w, r.exc)
         ELSE LET cu == IF r.list = <<>> THEN DropKey(w.connected_user, user_id)
                        ELSE [w.connected_user EXCEPT ![user_id] = r.list]
              IN Ret([w EXCEPT !.connected_user = cu], user_id)

\* disconnect, lines 88-92: with no connection of the user in the registry,
\* go offline and tell everybody.
disconnect_offline(w, user_id) ==
    IF user_id \notin DOMAIN w.connected_user \/ w.connected_user[user_id] = <<>>
    THEN Ret(emit(set_offline(w, user_id), "user_offline",
                  [user_id |-> user_id], NoRoom, None), None)
    ELSE Ret(w, None)

\* The disconnect handler: find the user holding sid, take sid off the list,
\* delete the session mirror and, with no connection left, go offline.
disconnect(w, sid) ==
    LET r == disconnect_unlist(w, sid) IN
    IF r.exc # "" \/ r.ret = None THEN r
    ELSE disconnect_offline(delete_user_session(r.w, r.ret, sid), r.ret)

\* The transport drops sid: it leaves the namespace and every room.
Closed(w, sid) ==
    [w EXCEPT !.conn[sid] = "closed",
              !.sio_rooms = [r \in Rooms |-> @[r] \ {sid}]]

\* sio.disconnect(sid): the disconnect handler runs, then sid is dropped.
sio_disconnect(w, sid) == Closed(disconnect(w, sid).w, sid)

RECURSIVE emit_each(_, _, _)
emit_each(w, msgs, sid) ==
    IF msgs = <<>> THEN w
    ELSE emit_each(emit(w, "message", Head(msgs), sid, None), Tail(msgs), sid)

\* connect, lines 50-67: enter sid in the registry, hand over what was
\* queued, tell the others.
connect_register(w, sid, user_id) ==
    LET w3 == [w EXCEPT !.connected_user =
                  [WithKey(@, user_id) EXCEPT ![user_id] = Append(@, sid)]]
        r4 == get_queued_messages(w3, user_id)
        w5 == emit_each(r4.w, r4.ret, sid)
        w6 == emit(w5, "user_online", [user_id |-> user_id], NoRoom, sid)
    IN [w6 EXCEPT !.hs[sid] = "accepted"]

\* The connect handler. The transport has entered sid in the namespace
\* before it calls the handler.
connect(w, sid, envrion, auth) ==
    LET w0 == [w EXCEPT !.conn[sid] = "open"]
        token == extract_token_from_handshake(auth)
        user_data == verify_jwt_token(token)
        user_id == user_data.user_id
    IN
    IF Falsy(token) THEN [sio_disconnect(w0, sid) EXCEPT !.hs[sid] = "refused"]
    ELSE IF ~user_data.ok
    THEN [sio_disconnect(w0, sid) EXCEPT !.hs[sid] = "refused"]
    ELSE LET r1 == set_user_session(w0, user_id, sid, user_data) IN
         IF r1.exc # "" THEN [r1.w EXCEPT !.hs[sid] = "crashed"]
         ELSE connect_register(set_online(r1.w, user_id, "online"), sid, user_id)

\* An error answer that also drops the connection.
Error_disconnect(w, sid, text) ==
    sio_disconnect(emit(w, "error", [message |-> text], sid, None), sid)

\* The error answer of the handlers: to the sid of the event alone.
Error(w, sid, text) == emit(w, "error", [message |-> text], sid, None)

\* What send_message does with the result r3 of create_message, were it to
\* broadcast whatever came back.
send_after_create_anyway(r3, sid, user_id, data) ==
    _notify_offline_members(
        emit(r3.w, "message", r3.ret, data.room_id, None),
        data.room_id, user_id, r3.ret)

\* What send_message does with the result r3 of create_message (lines
\* 206-214): without a row, an error to the sender and nothing else; with
\* one, the broadcast to the room and the offline path.
send_after_create(r3, sid, user_id, data) ==
    IF r3.ret = NoMessage
    THEN Error(r3.w, sid, "Failed to save message")
    ELSE _notify_offline_members(
             emit(r3.w, "message", r3.ret, data.room_id, None),
             data.room_id, user_id, r3.ret)

\* send_message from its insert on (lines 197-214).
send_store(w, sid, user_id, data) ==
    send_after_create(create_message(w, data.room_id, user_id, data.content),
                      sid, user_id, data)

\* The send_message handler; data is the event's payload.
send_message(w, sid, data) ==
    LET user_id == _get_user_id_from_sid(w, sid) IN
    IF data.room_id = None THEN Error(w, sid, "room_id required")
    ELSE IF user_id = None THEN Error(w, sid, "Unauthorized")
    ELSE LET r1 == check_rate_limit(w, user_id, MAX_MESSAGES_PER_MINUTE) IN
         IF ~r1.ret THEN Error(r1.w, sid, "Rate limit exceeded")
         ELSE LET r2 == _check_room_membership(r1.w, user_id, data.room_id) IN
              IF ~r2.ret THEN Error(r2.w, sid, "Not a member")
              ELSE send_store(r2.w, sid, user_id, data)

\* The join_room handler. The confirmation is emitted with room_id as the
\* third positional argument of sio.emit, its addressee.
join_room_enter_first(w, sid, data) ==
    LET w0 == IF data.room_id = None THEN w
              ELSE [w EXCEPT !.sio_rooms[data.room_id] = @ \cup {sid}]
        user_id == _get_user_id_from_sid(w, sid)
    IN
    IF data.room_id = None THEN Error(w0, sid, "room_id required")
    ELSE IF user_id = None THEN Error(w0, sid, "Unauthorized")
    ELSE LET r == _check_room_membership(w0, user_id, data.room_id) IN
         IF ~r.ret THEN Error(r.w, sid, "Not a member of this room")
         ELSE LET w2 == emit(r.w, "user_joined_room",
                             [user_id |-> user_id, room_id |-> data.room_id],
                             data.room_id, sid)
              IN emit(w2, "room_joined", [room_id |-> data.room_id],
                      data.room_id, None)

join_room(w, sid, data) ==
    LET user_id == _get_user_id_from_sid(w, sid) IN
    IF data.room_id = None THEN Error(w, sid, "room_id required")
    ELSE IF user_id = None THEN Error(w, sid, "Unauthorized")
    ELSE LET r == _check_room_membership(w, user_id, data.room_id) IN
         IF ~r.ret THEN Error(r.w, sid, "Not a member of this room")
         ELSE LET w1 == [r.w EXCEPT !.sio_rooms[data.room_id] = @ \cup {sid}]
                  w2 == emit(w1, "user_joined_room",
                             [user_id |-> user_id, room_id |-> data.room_id],
                             data.room_id, sid)
              IN emit(w2, "room_joined", [room_id |-> data.room_id],
                      data.room_id, None)

\* The leave_room handler: no room_id, no answer; no session, no broadcast.
leave_room(w, sid, data) ==
    LET user_id == _get_user_id_from_sid(w, sid) IN
    IF data.room_id = None THEN w
    ELSE LET w1 == [w EXCEPT !.sio_rooms[data.room_id] = @ \ {sid}] IN
         IF user_id = None THEN w1
         ELSE emit(w1, "user_left_room",
                   [user_id |-> user_id, room_id |-> data.room_id],
                   data.room_id, None)

\* The edit_message handler (message_id 0 = not given). The user id goes
\* to the service as it is, None included.
edit_message(w, sid, data, now) ==
    IF data.message_id = 0 \/ data.content = None
    THEN Error(w, sid, "message_id and content required")
    ELSE LET user_id == _get_user_id_from_sid(w, sid)
             r == service_edit_message(w, data.message_id, user_id,
                                       data.content, now)
         IN IF r.ret = NoMessage THEN Error(r.w, sid, "Failed to edit")
            ELSE emit(r.w, "message_edited", r.ret, r.ret.room_id, None)

\* The delete_message handler.
delete_message(w, sid, data, now) ==
    IF data.message_id = 0 THEN Error(w, sid, "message_id required")
    ELSE LET user_id == _get_user_id_from_sid(w, sid)
             r == service_delete_message(w, data.message_id, user_id, now)
         IN IF r.ret = NoDeleted THEN Error(r.w, sid, "Failed to delete")
            ELSE emit(r.w, "message_deleted",
                      [message_id |-> data.message_id, room_id |-> r.ret.room_id],
                      r.ret.room_id, None)

\* The typing_start handler: no room_id or no session, no answer.
typing_start(w, sid, data) ==
    LET user_id == _get_user_id_from_sid(w, sid) IN
    IF data.room_id = None THEN w
    ELSE IF user_id = None THEN w
    ELSE emit(set_typing(w, data.room_id, user_id, TYPING_TIMEOUT),
              "user_typing", [user_id |-> user_id, room_id |-> data.room_id],
              data.room_id, sid)

\* The typing_stop handler.
typing_stop(w, sid, data) ==
    LET user_id == _get_user_id_from_sid(w, sid) IN
    IF data.room_id = None THEN w
    ELSE IF user_id = None THEN w
    ELSE emit(remove_typing(w, data.room_id, user_id),
              "user_stopped_typing",
              [user_id |-> user_id, room_id |-> data.room_id],
              data.room_id, sid)

\* The update_status handler.
update_status(w, sid, data) ==
    LET user_id == _get_user_id_from_sid(w, sid) IN
    IF data.status \notin Statuses THEN Error(w, sid, "Invalid status")
    ELSE IF user_id = None THEN w
    ELSE emit(presence_update_status(w, user_id, data.status),
              "user_status_changed",
              [user_id |-> user_id, status |-> data.status], NoRoom, sid)

\* MessageService.create_message_with_attachment: a row of messages without
\* content, a row of message_attachments for it, the sender's profile read
\* from table profiles; the row comes back with its attachment.
create_message_with_attachment(w, room_id, sender_id, file_name) ==
    LET row == Message(Len(w.messages) + 1, room_id, sender_id, None)
        w1 == [w EXCEPT !.messages = Append(@, row)]
    IN Ret(w1, row @@ [attachment |-> file_name])

\* file_uploaded as events.py defines it: no session check, no membership
\* check, the row stored and broadcast to the room, no offline path.
file_uploaded(w, sid, data) ==
    LET user_id == _get_user_id_from_sid(w, sid)
        r == create_message_with_attachment(w, data.room_id, user_id,
                                            data.file_name)
    IN emit(r.w, "message", r.ret, data.room_id, None)

\* The functions register_socket_events decorates with @sio.event: the
\* events the server has a handler for. file_uploaded is defined without the
\* decorator.
RegisteredEvents ==
    {"connect", "disconnect", "join_room", "leave_room", "send_message",
     "edit_message", "delete_message", "typing_start", "typing_stop",
     "update_status"}

\* ------------------------------------------------------- the hub: Spec
\* What a handshake carried, read in the order the interface documents:
\* auth token, bearer header, query parameter.
FirstToken(auth, q) ==
    IF auth.token.kind = "jwt" THEN auth.token
    ELSE IF auth.scheme = "Bearer" /\ auth.cred.kind = "jwt" THEN auth.cred
    ELSE q
Presented(auth, q) ==
    LET t == FirstToken(auth, q) IN
    IF t.kind # "jwt" THEN "missing"
    ELSE IF t.sig /\ ~t.exp /\ t.sub # None THEN t.sub
    ELSE "invalid"

\* Envelopes left in queue:{u1} by earlier deliveries to an offline user;
\* the ephemeral store outlives the process, the registry does not.
SeedEnvelope(i) == json_dumps(Message(100 + i, "r1", "u2", "old"))
SeedQueues == {[i \in 1..n |-> SeedEnvelope(n + 1 - i)] : n \in 0..MaxSeed}

Payloads == [room_id : Rooms \cup {None}, content : {"hi"}]
StatusPayloads == [status : Statuses \cup {"dnd"}]
RoomPayloads == [room_id : Rooms \cup {None}]
EditPayloads == [message_id : {0, 1}, content : {None, "new"}]
DeletePayloads == [message_id : {0, 1}]
FilePayloads == [room_id : Rooms, file_name : {"a.png"}]

\* A service call: the coroutine, where it stands, its arguments and what
\* it has read so far.
Idle ==
    [fn |-> "idle", pc |-> "", sid |-> None, user |-> None, room |-> None,
     sender |-> None, message |-> NoMessage, current |-> 0, read |-> <<>>, todo |-> {}]
TaskIds == 1..MaxTasks

\* An inbound event: the handler named, the connection, the payload.
Inbound(ev, sid, data) == [ev |-> ev, sid |-> sid, data |-> data]
NoInbound == Inbound("", None, <<>>)

\* What a call returned: which call it was, of what, for whom, the value.
\* message, content: the arguments of a MessageService call; repeat: the
\* call before it was the same call and succeeded.
ReturnedMsg(call, fn, user, message, content, ret, repeat) ==
    [call |-> call, fn |-> fn, user |-> user, room |-> None, ret |-> ret,
     message |-> message, content |-> content, repeat |-> repeat]
Returned(call, fn, user, room, ret) ==
    [ReturnedMsg(call, fn, user, 0, None, ret, FALSE) EXCEPT !.room = room]
NoReturn == Returned(0, "", None, None, FALSE)

\* Rows the repository already holds when the process starts.
SeedMessages == <<Message(1, "r1", "u1", "old"), Message(2, "r1", "u2", "old")>>
MsgIds == 1..MaxCalls

\* Everything but the offline queues and the membership rows: the process
\* has just been built.
InitStores ==
    /\ hs = [s \in Sids |-> "none"]
    /\ presented = [s \in Sids |-> "none"]
    /\ connected_user = <<>>
    /\ sio_rooms = [r \in Rooms |-> {}]
    /\ emitted = <<>>
    /\ nev = 0
    /\ sent = [s \in Sids |-> 0]
    /\ inbound = NoInbound
    /\ session = {}
    /\ presence = [u \in Users |-> None]
    /\ ratelimit = [u \in Users |-> [val |-> 0, ttl |-> 0]]
    /\ members_cache = [r \in Rooms |-> {}]
    /\ typing = [r \in Rooms |-> [members |-> {}, ttl |-> 0]]
    /\ messages = SeedMessages
    /\ notifications = {}
    /\ task = [t \in TaskIds |-> Idle]
    /\ ncalls = 0
    /\ passed = [u \in Users |-> 0]
    /\ pushed = [u \in Users |-> [i \in MsgIds |-> 0]]
    /\ delivered = [u \in Users |-> [i \in MsgIds |-> 0]]
    /\ returned = NoReturn
    /\ typed = [r \in Rooms |-> [u \in Users |-> [on |-> FALSE, age |-> 0]]]
    /\ marked = {}

InitRest ==
    /\ conn = [s \in Sids |-> "new"]
    /\ InitStores

Init ==
    /\ InitRest
    /\ room_members = Rooms \X Users
    /\ \E seed \in SeedQueues : queue = [u \in Users |-> IF u = "u1" THEN seed ELSE <<>>]

\* A client opens connection sid with an auth payload and a query string.
Connect(sid, auth, q) ==
    /\ conn[sid] = "new"
    /\ Commit(connect(World, sid, q, auth))
    /\ presented' = [presented EXCEPT ![sid] = Presented(auth, q)]
    /\ UNCHANGED <<nev, sent, inbound, svcVars>>

\* The transport of sid closes: the disconnect handler runs.
TransportClose(sid) ==
    /\ conn[sid] = "open"
    /\ Commit(Closed(disconnect(World, sid).w, sid))
    /\ UNCHANGED <<presented, nev, sent, inbound, svcVars>>

SendMessage(sid, data) ==
    /\ conn[sid] = "open"
    /\ nev < MaxEvents
    /\ Commit(send_message(World, sid, data))
    /\ nev' = nev + 1
    /\ sent' = [sent EXCEPT ![sid] = IF data.room_id = None THEN @ ELSE @ + 1]
    /\ inbound' = Inbound("send_message", sid, data)
    /\ UNCHANGED <<presented, svcVars>>

UpdateStatus(sid, data) ==
    /\ conn[sid] = "open"
    /\ nev < MaxEvents
    /\ Commit(update_status(World, sid, data))
    /\ nev' = nev + 1
    /\ inbound' = Inbound("update_status", sid, data)
    /\ UNCHANGED <<presented, sent, svcVars>>

JoinRoom(sid, data) ==
    /\ conn[sid] = "open"
    /\ nev < MaxEvents
    /\ Commit(join_room(World, sid, data))
    /\ nev' = nev + 1
    /\ inbound' = Inbound("join_room", sid, data)
    /\ UNCHANGED <<presented, sent, svcVars>>

LeaveRoom(sid, data) ==
    /\ conn[sid] = "open"
    /\ nev < MaxEvents
    /\ Commit(leave_room(World, sid, data))
    /\ nev' = nev + 1
    /\ inbound' = Inbound("leave_room", sid, data)
    /\ UNCHANGED <<presented, sent, svcVars>>

\* The clock reading of the handler is the number of the event.
EditMessage(sid, data) ==
    /\ conn[sid] = "open"
    /\ nev < MaxEvents
    /\ Commit(edit_message(World, sid, data, nev + 1))
    /\ nev' = nev + 1
    /\ inbound' = Inbound("edit_message", sid, data)
    /\ UNCHANGED <<presented, sent, svcVars>>

DeleteMessage(sid, data) ==
    /\ conn[sid] = "open"
    /\ nev < MaxEvents
    /\ Commit(delete_message(World, sid, data, nev + 1))
    /\ nev' = nev + 1
    /\ inbound' = Inbound("delete_message", sid, data)
    /\ UNCHANGED <<presented, sent, svcVars>>

TypingStart(sid, data) ==
    /\ conn[sid] = "open"
    /\ nev < MaxEvents
    /\ Commit(typing_start(World, sid, data))
    /\ nev' = nev + 1
    /\ inbound' = Inbound("typing_start", sid, data)
    /\ UNCHANGED <<presented, sent, svcVars>>

TypingStop(sid, data) ==
    /\ conn[sid] = "open"
    /\ nev < MaxEvents
    /\ Commit(typing_stop(World, sid, data))
    /\ nev' = nev + 1
    /\ inbound' = Inbound("typing_stop", sid, data)
    /\ UNCHANGED <<presented, sent, svcVars>>

\* A client emits file_uploaded: the server runs the handler registered
\* under that name, if there is one, and drops the event otherwise.
FileUploaded(sid, data) ==
    /\ conn[sid] = "open"
    /\ nev < MaxEvents
    /\ Commit(IF "file_uploaded" \in RegisteredEvents
              THEN file_uploaded(World, sid, data)
              ELSE World)
    /\ nev' = nev + 1
    /\ inbound' = Inbound("file_uploaded", sid, data)
    /\ UNCHANGED <<presented, sent, svcVars>>

Next ==
    \/ \E sid \in Sids, h \in Handshakes : Connect(sid, h[1], h[2])
    \/ \E sid \in Sids : TransportClose(sid)
    \/ \E sid \in Sids, data \in Payloads : SendMessage(sid, data)
    \/ \E sid \in Sids, data \in StatusPayloads : UpdateStatus(sid, data)
    \/ \E sid \in Sids, data \in RoomPayloads : JoinRoom(sid, data)
    \/ \E sid \in Sids, data \in RoomPayloads : LeaveRoom(sid, data)
    \/ \E sid \in Sids, data \in EditPayloads : EditMessage(sid, data)
    \/ \E sid \in Sids, data \in DeletePayloads : DeleteMessage(sid, data)
    \/ \E sid \in Sids, data \in RoomPayloads : TypingStart(sid, data)
    \/ \E sid \in Sids, data \in RoomPayloads : TypingStop(sid, data)
    \/ \E sid \in Sids, data \in FilePayloads : FileUploaded(sid, data)

vars == <<hubVars, redisVars, dbVars, svcVars>>

Spec == Init /\ [][Next]_vars

(***************************************************************************)
(* SpecRate, SpecQueue: the service layer under concurrent callers.  Each  *)
(* call of a RedisClient coroutine or events.py helper is a task; one      *)
(* action is the stretch of a coroutine up to and including one awaited    *)
(* Redis command, so calls interleave exactly where the event loop can     *)
(* switch.                                                                 *)
(***************************************************************************)
InitSvc ==
    /\ InitRest
    /\ room_members = Rooms \X Users
    /\ queue = [u \in Users |-> <<>>]

\* A new call takes the first free slot.
IdleTask(t) ==
    /\ ncalls < MaxCalls
    /\ task[t].fn = "idle"
    /\ \A t2 \in TaskIds : t2 < t => task[t2].fn # "idle"

\* The message a caller hands to queue_message / _notify_offline_members:
\* a row of the messages table, its id fresh.
NewMessage(room_id, sender_id) == Message(ncalls + 1, room_id, sender_id, "hi")

InQueue(q, i) == Cardinality({k \in 1..Len(q) : json_loads(q[k]).id = i})

\* check_rate_limit(user_id, limit), line 138: current = await get(key)
RateGet(t, user_id) ==
    /\ IdleTask(t)
    /\ task' = [task EXCEPT ![t] = [Idle EXCEPT !.fn = "check_rate_limit",
                    !.pc = "got", !.user = user_id,
                    !.current = rate_get(World, user_id)]]
    /\ ncalls' = ncalls + 1
    /\ UNCHANGED <<logVars, hubVars, redisVars, dbVars, passed, pushed, delivered>>

\* check_rate_limit, lines 140-148: setex / return False / incr
RateDecide(t) ==
    /\ task[t].fn = "check_rate_limit"
    /\ LET r == rate_decide(World, task[t].user, MAX_MESSAGES_PER_MINUTE,
                            task[t].current) IN
        /\ Commit(r.w)
        /\ passed' = [passed EXCEPT ![task[t].user] = IF r.ret THEN @ + 1 ELSE @]
    /\ task' = [task EXCEPT ![t] = Idle]
    /\ UNCHANGED <<logVars, presented, nev, sent, inbound, ncalls, pushed, delivered>>

\* Redis drops a counter whose expiry has come: the window of the user ends.
RateExpire(user_id) ==
    /\ ratelimit[user_id].val > 0
    /\ ratelimit[user_id].ttl > 0
    /\ ratelimit' = [ratelimit EXCEPT ![user_id] = [val |-> 0, ttl |-> 0]]
    /\ passed' = [passed EXCEPT ![user_id] = 0]
    /\ UNCHANGED <<logVars, hubVars, session, presence, queue, members_cache,
                   typing, dbVars,
                   task, ncalls, pushed, delivered>>

\* get_queued_messages(user_id), line 118: messages = await lrange(key, 0, -1)
DrainRange(t, user_id) ==
    /\ IdleTask(t)
    /\ task' = [task EXCEPT ![t] = [Idle EXCEPT !.fn = "get_queued_messages",
                    !.pc = "read", !.user = user_id,
                    !.read = queue_lrange(World, user_id)]]
    /\ ncalls' = ncalls + 1
    /\ UNCHANGED <<logVars, hubVars, redisVars, dbVars, passed, pushed, delivered>>

\* get_queued_messages, lines 119-121: await delete(key); return the parsed list
DrainDelete(t) ==
    /\ task[t].fn = "get_queued_messages"
    /\ LET r == queue_delete(World, task[t].user, task[t].read) IN
        /\ Commit(r.w)
        /\ delivered' = [delivered EXCEPT ![task[t].user] =
               [i \in MsgIds |-> @[i] + Cardinality({k \in 1..Len(r.ret) : r.ret[k].id = i})]]
    /\ task' = [task EXCEPT ![t] = Idle]
    /\ UNCHANGED <<logVars, presented, nev, sent, inbound, ncalls, passed, pushed>>

\* _notify_offline_members(room_id, sender_id, message), lines 436-437: the
\* rows of room_members for the room, the sender left out.
NotifyQuery(t, room_id, sender_id) ==
    /\ IdleTask(t)
    /\ task' = [task EXCEPT ![t] = [Idle EXCEPT !.fn = "_notify_offline_members",
                    !.pc = "loop", !.room = room_id, !.sender = sender_id,
                    !.message = NewMessage(room_id, sender_id),
                    !.todo = notify_members(World, room_id, sender_id)]]
    /\ ncalls' = ncalls + 1
    /\ UNCHANGED <<logVars, hubVars, redisVars, dbVars, passed, pushed, delivered>>

\* lines 439-443: the next row; is_user_online(member_id), one exists
NotifyCheck(t, member_id) ==
    /\ task[t].fn = "_notify_offline_members"
    /\ task[t].pc = "loop"
    /\ member_id \in task[t].todo
    /\ task' = [task EXCEPT ![t] =
           IF is_user_online(World, member_id)
           THEN [@ EXCEPT !.todo = @ \ {member_id}]
           ELSE [@ EXCEPT !.todo = @ \ {member_id}, !.pc = "offline",
                          !.user = member_id]]
    /\ UNCHANGED <<logVars, hubVars, redisVars, dbVars, ncalls, passed, pushed, delivered>>

\* lines 445-456: queue_message for the member found offline (lpush; the
\* expire after it only renews the expiry of the list), then
\* create_notification
NotifyEnqueue(t) ==
    /\ task[t].fn = "_notify_offline_members"
    /\ task[t].pc = "offline"
    /\ Commit(notify_enqueue(World, task[t].user, task[t].message))
    /\ pushed' = [pushed EXCEPT ![task[t].user][task[t].message.id] = @ + 1]
    /\ task' = [task EXCEPT ![t].pc = "loop", ![t].user = None]
    /\ UNCHANGED <<logVars, presented, nev, sent, inbound, ncalls, passed, delivered>>

\* lines 445-446 and 458-459: queue_message raises (the store refuses the
\* lpush); the except around the loop prints and the coroutine returns,
\* the rows not yet looked at with it
NotifyEnqueueFails(t) ==
    /\ task[t].fn = "_notify_offline_members"
    /\ task[t].pc = "offline"
    /\ task' = [task EXCEPT ![t] = Idle]
    /\ UNCHANGED <<logVars, hubVars, redisVars, dbVars, ncalls, passed, pushed, delivered>>

\* the loop has run out of rows: the coroutine returns
NotifyReturn(t) ==
    /\ task[t].fn = "_notify_offline_members"
    /\ task[t].pc = "loop"
    /\ task[t].todo = {}
    /\ task' = [task EXCEPT ![t] = Idle]
    /\ UNCHANGED <<logVars, hubVars, redisVars, dbVars, ncalls, passed, pushed, delivered>>

\* PresenceService.set_online(user_id, socket_id) and set_offline(user_id):
\* one Redis command each.
SetOnline(user_id) ==
    /\ ncalls < MaxCalls
    /\ presence[user_id] = None
    /\ Commit(set_online(World, user_id, "online"))
    /\ ncalls' = ncalls + 1
    /\ UNCHANGED <<logVars, presented, nev, sent, inbound, task, passed, pushed, delivered>>

SetOffline(user_id) ==
    /\ ncalls < MaxCalls
    /\ presence[user_id] # None
    /\ Commit(set_offline(World, user_id))
    /\ ncalls' = ncalls + 1
    /\ UNCHANGED <<logVars, presented, nev, sent, inbound, task, passed, pushed, delivered>>

\* _check_room_membership(user_id, room_id), as one step.
CheckMembership(user_id, room_id) ==
    /\ ncalls < MaxCalls
    /\ LET r == _check_room_membership(World, user_id, room_id) IN
        /\ Commit(r.w)
        /\ returned' = Returned(ncalls + 1, "_check_room_membership", user_id,
                                room_id, r.ret)
    /\ ncalls' = ncalls + 1
    /\ UNCHANGED <<typed, marked, presented, nev, sent, inbound, task, passed, pushed, delivered>>

\* _check_room_membership(user_id, room_id) called while the ephemeral
\* store is failing.
CheckMembershipDown(user_id, room_id) ==
    /\ ncalls < MaxCalls
    /\ LET r == _check_room_membership_down(World, user_id, room_id) IN
        /\ Commit(r.w)
        /\ returned' = Returned(ncalls + 1, "_check_room_membership, store down",
                                user_id, room_id, r.ret)
    /\ ncalls' = ncalls + 1
    /\ UNCHANGED <<typed, marked, presented, nev, sent, inbound, task, passed, pushed, delivered>>

\* The REST routes of routes/rooms.py take a row out of room_members.
RemoveMember(room_id, user_id) ==
    /\ ncalls < MaxCalls
    /\ <<room_id, user_id>> \in room_members
    /\ room_members' = room_members \ {<<room_id, user_id>>}
    /\ ncalls' = ncalls + 1
    /\ UNCHANGED <<logVars, hubVars, redisVars, messages, notifications, task, passed,
                   pushed, delivered>>

\* check_rate_limit under concurrent callers, the windows ending when Redis
\* says so.
\* The REST routes of routes/rooms.py put a row into room_members.
AddMember(room_id, user_id) ==
    /\ ncalls < MaxCalls
    /\ <<room_id, user_id>> \notin room_members
    /\ room_members' = room_members \cup {<<room_id, user_id>>}
    /\ ncalls' = ncalls + 1
    /\ UNCHANGED <<logVars, hubVars, redisVars, messages, notifications, task,
                   passed, pushed, delivered>>

\* Redis drops room_members:{room_id} when its expiry comes.
CacheExpire(room_id) ==
    /\ members_cache[room_id] # {}
    /\ members_cache' = [members_cache EXCEPT ![room_id] = {}]
    /\ UNCHANGED <<hubVars, session, presence, queue, ratelimit, typing, dbVars,
                   svcVars>>

\* check_rate_limit(user_id, limit) run on its own, from call to return.
RateCall(user_id) ==
    /\ ncalls < MaxCalls
    /\ LET r == check_rate_limit(World, user_id, MAX_MESSAGES_PER_MINUTE) IN
        /\ Commit(r.w)
        /\ returned' = Returned(ncalls + 1, "check_rate_limit", user_id, None,
                                r.ret)
    /\ ncalls' = ncalls + 1
    /\ UNCHANGED <<typed, marked, presented, nev, sent, inbound, task, passed, pushed, delivered>>

\* One tick of the clock for ratelimit:{user_id}: a tick nearer its expiry
\* (RateExpire is the tick that gets there).
RateTick(user_id) ==
    /\ ratelimit[user_id].ttl > 1
    /\ ratelimit' = [ratelimit EXCEPT ![user_id].ttl = @ - 1]
    /\ UNCHANGED <<hubVars, session, presence, queue, members_cache, typing,
                   dbVars, svcVars>>

\* check_rate_limit called by one caller at a time while the clock runs.
NextRateSeq ==
    \/ \E u \in Users : RateCall(u)
    \/ \E u \in Users : RateTick(u)
    \/ \E u \in Users : RateExpire(u)

SpecRateSeq == InitSvc /\ [][NextRateSeq]_vars

NextRate ==
    \/ \E t \in TaskIds, u \in Users : RateGet(t, u)
    \/ \E t \in TaskIds : RateDecide(t)
    \/ \E u \in Users : RateExpire(u)

SpecRate == InitSvc /\ [][NextRate]_vars

\* The offline queues under concurrent producers and consumers, presence
\* and membership changing between the calls.
NextQueue ==
    \/ \E t \in TaskIds, u \in Users : DrainRange(t, u)
    \/ \E t \in TaskIds : DrainDelete(t)
    \/ \E t \in TaskIds, r \in Rooms, u \in Users : NotifyQuery(t, r, u)
    \/ \E t \in TaskIds, u \in Users : NotifyCheck(t, u)
    \/ \E t \in TaskIds : NotifyEnqueue(t)
    \/ \E t \in TaskIds : NotifyReturn(t)
    \/ \E u \in Users : SetOnline(u)
    \/ \E u \in Users : SetOffline(u)
    \/ \E u \in Users, r \in Rooms : CheckMembership(u, r)
    \/ \E r \in Rooms, u \in Users : RemoveMember(r, u)

SpecQueue == InitSvc /\ [][NextQueue]_vars

\* MessageService.edit_message(message_id, user_id, new_content): select,
\* then update, with no await in between.
EditCall(message_id, user_id, new_content) ==
    /\ ncalls < MaxCalls
    /\ LET r == service_edit_message(World, message_id, user_id, new_content,
                                     ncalls + 1) IN
        /\ Commit(r.w)
        /\ returned' = ReturnedMsg(ncalls + 1, "edit_message", user_id,
                                   message_id, new_content, r.ret # NoMessage,
                                   /\ returned.fn = "edit_message"
                                   /\ returned.ret
                                   /\ returned.user = user_id
                                   /\ returned.message = message_id
                                   /\ returned.content = new_content)
    /\ ncalls' = ncalls + 1
    /\ UNCHANGED <<typed, marked, presented, nev, sent, inbound, task, passed, pushed, delivered>>

\* MessageService.delete_message(message_id, user_id)
DeleteCall(message_id, user_id) ==
    /\ ncalls < MaxCalls
    /\ LET r == service_delete_message(World, message_id, user_id, ncalls + 1) IN
        /\ Commit(r.w)
        /\ returned' = ReturnedMsg(ncalls + 1, "delete_message", user_id,
                                   message_id, None, r.ret # NoDeleted, FALSE)
    /\ ncalls' = ncalls + 1
    /\ UNCHANGED <<typed, marked, presented, nev, sent, inbound, task, passed, pushed, delivered>>

\* The ids and users MessageService is called with: the rows there are and
\* an id no row has; two users and no user.
MessageIds == {1, 2, 9}
Callers == {"u1", "u2", None}
Contents == {"a", "b"}

NextMessage ==
    \/ \E m \in MessageIds, u \in Callers, c \in Contents : EditCall(m, u, c)
    \/ \E m \in MessageIds, u \in Callers : DeleteCall(m, u)

SpecMessage == InitSvc /\ [][NextMessage]_vars

\* redis_client.set_typing(room_id, user_id, settings.TYPING_TIMEOUT), as
\* typing_start calls it: sadd, then expire on the key.
TypingStartCall(room_id, user_id) ==
    /\ Commit(set_typing(World, room_id, user_id, TYPING_TIMEOUT))
    /\ typed' = [typed EXCEPT ![room_id][user_id] = [on |-> TRUE, age |-> 0]]
    /\ UNCHANGED <<returned, marked, presented, nev, sent, inbound, task, ncalls, passed, pushed,
                   delivered>>

\* redis_client.remove_typing(room_id, user_id), as typing_stop calls it.
TypingStopCall(room_id, user_id) ==
    /\ Commit(remove_typing(World, room_id, user_id))
    /\ typed' = [typed EXCEPT ![room_id][user_id] = [on |-> FALSE, age |-> 0]]
    /\ UNCHANGED <<returned, marked, presented, nev, sent, inbound, task, ncalls, passed, pushed,
                   delivered>>

\* One tick of the clock: every typing key is a tick nearer its expiry and
\* goes, with all its members, when it gets there.
Tick ==
    /\ typing' = [r \in Rooms |->
           IF typing[r].ttl <= 1 THEN [members |-> {}, ttl |-> 0]
           ELSE [typing[r] EXCEPT !.ttl = @ - 1]]
    /\ typed' = [r \in Rooms |-> [u \in Users |->
           IF typed[r][u].on /\ typed[r][u].age <= TYPING_TIMEOUT
           THEN [typed[r][u] EXCEPT !.age = @ + 1]
           ELSE typed[r][u]]]
    /\ UNCHANGED <<hubVars, session, presence, queue, ratelimit, members_cache,
                   dbVars, task, ncalls, passed, pushed, delivered, returned, marked>>

NextTyping ==
    \/ \E r \in Rooms, u \in Users : TypingStartCall(r, u)
    \/ \E r \in Rooms, u \in Users : TypingStopCall(r, u)
    \/ Tick

SpecTyping == InitSvc /\ [][NextTyping]_vars

\* PresenceService.set_online(user_id, "online"), as connect calls it for
\* every connection it registers (line 48).
OnlineCall(user_id) ==
    /\ ncalls < MaxCalls
    /\ Commit(set_online(World, user_id, "online"))
    /\ marked' = marked \cup {user_id}
    /\ returned' = Returned(ncalls + 1, "set_online", user_id, None, TRUE)
    /\ ncalls' = ncalls + 1
    /\ UNCHANGED <<typed, presented, nev, sent, inbound, task, passed, pushed, delivered>>

\* PresenceService.set_offline(user_id), as disconnect calls it when the
\* user's last connection has gone (line 90).
OfflineCall(user_id) ==
    /\ ncalls < MaxCalls
    /\ user_id \in marked
    /\ Commit(set_offline(World, user_id))
    /\ marked' = marked \ {user_id}
    /\ returned' = Returned(ncalls + 1, "set_offline", user_id, None, TRUE)
    /\ ncalls' = ncalls + 1
    /\ UNCHANGED <<typed, presented, nev, sent, inbound, task, passed, pushed, delivered>>

\* PresenceService.update_status(user_id, status), as update_status calls
\* it for a connected user (line 348).
StatusCall(user_id, status) ==
    /\ ncalls < MaxCalls
    /\ user_id \in marked
    /\ Commit(presence_update_status(World, user_id, status))
    /\ returned' = Returned(ncalls + 1, "update_status", user_id, None,
                            status \in Statuses)
    /\ ncalls' = ncalls + 1
    /\ UNCHANGED <<typed, marked, presented, nev, sent, inbound, task, passed, pushed,
                   delivered>>

\* Redis drops presence:{user_id} when the expiry of its setex (300
\* seconds) comes; only set_user_online writes the key again.
PresenceExpire(user_id) ==
    /\ presence[user_id] # None
    /\ presence' = [presence EXCEPT ![user_id] = None]
    /\ UNCHANGED <<hubVars, session, queue, ratelimit, members_cache, typing,
                   dbVars, svcVars>>

\* The offline path with a store that may refuse an enqueue.
NextNotify ==
    \/ \E t \in TaskIds, r \in Rooms, u \in Users : NotifyQuery(t, r, u)
    \/ \E t \in TaskIds, u \in Users : NotifyCheck(t, u)
    \/ \E t \in TaskIds : NotifyEnqueue(t)
    \/ \E t \in TaskIds : NotifyEnqueueFails(t)
    \/ \E t \in TaskIds : NotifyReturn(t)

SpecNotify == InitSvc /\ [][NextNotify]_vars

\* The registry under handshakes and transport closes whose handlers
\* interleave at their awaits, from the presence write of connect on (line
\* 48), with join_room as the user of the registry. u2 has no row in
\* room_members.
InitRegistry ==
    /\ InitRest
    /\ room_members = Rooms \X (Users \ {"u2"})
    /\ queue = [u \in Users |-> <<>>]

\* connect, lines 47-48: the token was good and the session saved; the
\* presence key is written (await).
ConnectOnline(t, sid, user_id) ==
    /\ IdleTask(t)
    /\ conn[sid] = "new"
    /\ Commit(set_online([World EXCEPT !.conn[sid] = "open"], user_id, "online"))
    /\ task' = [task EXCEPT ![t] = [Idle EXCEPT !.fn = "connect", !.pc = "register",
                                                !.sid = sid, !.user = user_id]]
    /\ presented' = [presented EXCEPT ![sid] = user_id]
    /\ ncalls' = ncalls + 1
    /\ UNCHANGED <<nev, sent, inbound, passed, pushed, delivered, logVars>>

\* connect, lines 50-67
ConnectRegister(t) ==
    /\ task[t].fn = "connect"
    /\ Commit(connect_register(World, task[t].sid, task[t].user))
    /\ task' = [task EXCEPT ![t] = Idle]
    /\ UNCHANGED <<presented, nev, sent, inbound, ncalls, passed, pushed, delivered,
                   logVars>>

\* A step of the disconnect handler of sid in slot t: lines 74-86 when the
\* transport has dropped sid (the handler ends there if sid is in nobody's
\* list or the removal raises), lines 88-92 when the session delete has
\* come back. `returned` notes whether a handshake of the same user was
\* under way when the handler started.
DisconnectStep(t, sid) ==
    IF task[t].fn = "disconnect"
    THEN /\ task[t].sid = sid
         /\ Commit(disconnect_offline(World, task[t].user).w)
         /\ task' = [task EXCEPT ![t] = Idle]
         /\ UNCHANGED <<presented, nev, sent, inbound, ncalls, passed, pushed,
                        delivered, logVars>>
    ELSE /\ IdleTask(t)
         /\ conn[sid] = "open"
         /\ LET r == disconnect_unlist(World, sid)
                goes_on == r.exc = "" /\ r.ret # None
                user_id == _get_user_id_from_sid(World, sid)
            IN /\ Commit(Closed(IF goes_on
                                THEN delete_user_session(r.w, r.ret, sid)
                                ELSE r.w, sid))
               /\ task' = IF goes_on
                          THEN [task EXCEPT ![t] =
                                   [Idle EXCEPT !.fn = "disconnect", !.pc = "offline",
                                                !.sid = sid, !.user = r.ret]]
                          ELSE task
               /\ returned' = Returned(ncalls + 1, "disconnect", user_id, None,
                                       \E t2 \in TaskIds :
                                           /\ task[t2].fn = "connect"
                                           /\ task[t2].user = user_id)
         /\ ncalls' = ncalls + 1
         /\ UNCHANGED <<typed, marked, presented, nev, sent, inbound, passed, pushed,
                        delivered>>

NextRegistry ==
    \/ \E t \in TaskIds, sid \in Sids, u \in Users : ConnectOnline(t, sid, u)
    \/ \E t \in TaskIds : ConnectRegister(t)
    \/ \E t \in TaskIds, sid \in Sids : DisconnectStep(t, sid)
    \/ \E sid \in Sids, data \in RoomPayloads : JoinRoom(sid, data)

SpecRegistry == InitRegistry /\ [][NextRegistry]_vars

\* Presence under the calls of the handlers and the clock of Redis, the
\* offline path reading it.
NextPresence ==
    \/ \E u \in Users : OnlineCall(u)
    \/ \E u \in Users : OfflineCall(u)
    \/ \E u \in Users, st \in Statuses : StatusCall(u, st)
    \/ \E u \in Users : PresenceExpire(u)
    \/ \E t \in TaskIds, r \in Rooms, u \in Users : NotifyQuery(t, r, u)
    \/ \E t \in TaskIds, u \in Users : NotifyCheck(t, u)
    \/ \E t \in TaskIds : NotifyEnqueue(t)
    \/ \E t \in TaskIds : NotifyReturn(t)

SpecPresence == InitSvc /\ [][NextPresence]_vars

\* The membership check against a repository that changes under its cache;
\* the process finds whatever rows the repository holds.
InitMember ==
    /\ InitRest
    /\ queue = [u \in Users |-> <<>>]
    /\ room_members \in SUBSET (Rooms \X Users)

NextMember ==
    \/ \E u \in Users, r \in Rooms : CheckMembership(u, r)
    \/ \E u \in Users, r \in Rooms : CheckMembershipDown(u, r)
    \/ \E r \in Rooms, u \in Users : AddMember(r, u)
    \/ \E r \in Rooms, u \in Users : RemoveMember(r, u)
    \/ \E r \in Rooms : CacheExpire(r)

SpecMember == InitMember /\ [][NextMember]_vars

(***************************************************************************)
(* SpecSend: send_message handlers of live connections running side by    *)
(* side.  The server starts a task per inbound event (async_handlers is   *)
(* left at its default in main.py), so the handlers of two events of one  *)
(* connection interleave wherever one of them awaits the ephemeral store. *)
(* A task is a handler from the point where its session lookup has        *)
(* answered (line 182); the content of its payload is the number of the    *)
(* event in the order the server received them.                            *)
(***************************************************************************)
\* The connections and the users their lookups answer with; u2 has no row
\* in room_members.
Senders == {<<"s1", "u1">>, <<"s2", "u2">>}

InitSend ==
    /\ conn = [s \in Sids |-> "open"]
    /\ InitStores
    /\ room_members = Rooms \X (Users \ {"u2"})
    /\ queue = [u \in Users |-> <<>>]

\* lines 163-183: the event arrives, the payload is read, the rate check
\* reads the counter (await get)
SendBegin(t, sid, user_id, room_id) ==
    /\ IdleTask(t)
    /\ task' = [task EXCEPT ![t] = [Idle EXCEPT !.fn = "send_message",
                    !.pc = "rate", !.sid = sid, !.sender = user_id,
                    !.room = room_id,
                    !.message = Message(0, room_id, user_id, ncalls + 1),
                    !.current = rate_get(World, user_id)]]
    /\ ncalls' = ncalls + 1
    /\ UNCHANGED <<logVars, hubVars, redisVars, dbVars, passed, pushed, delivered>>

\* lines 183-189: the rate check decides (await setex / incr); over the
\* limit the handler answers and returns
SendRate(t) ==
    /\ task[t].fn = "send_message"
    /\ task[t].pc = "rate"
    /\ LET r == rate_decide(World, task[t].sender, MAX_MESSAGES_PER_MINUTE,
                            task[t].current) IN
        IF r.ret
        THEN /\ Commit(r.w)
             /\ task' = [task EXCEPT ![t].pc = "member"]
        ELSE /\ Commit(Error(r.w, task[t].sid, "Rate limit exceeded"))
             /\ task' = [task EXCEPT ![t] = Idle]
    /\ UNCHANGED <<logVars, presented, nev, sent, inbound, ncalls, passed, pushed,
                   delivered>>

\* lines 191-195: the membership check (awaits on the cache)
SendMember(t) ==
    /\ task[t].fn = "send_message"
    /\ task[t].pc = "member"
    /\ LET r == _check_room_membership(World, task[t].sender, task[t].room) IN
        IF r.ret
        THEN /\ Commit(r.w)
             /\ task' = [task EXCEPT ![t].pc = "store"]
        ELSE /\ Commit(Error(r.w, task[t].sid, "Not a member"))
             /\ task' = [task EXCEPT ![t] = Idle]
    /\ UNCHANGED <<logVars, presented, nev, sent, inbound, ncalls, passed, pushed,
                   delivered>>

\* lines 197-214: the insert (the repository client does not await), which
\* the repository accepts or not, and what follows it
SendStore(t, accepted) ==
    /\ task[t].fn = "send_message"
    /\ task[t].pc = "store"
    /\ LET data == [room_id |-> task[t].room, content |-> task[t].message.content]
           r3 == IF accepted
                 THEN create_message(World, data.room_id, task[t].sender,
                                     data.content)
                 ELSE create_message_failed(World, data.room_id, task[t].sender,
                                            data.content)
       IN Commit(send_after_create(r3, task[t].sid, task[t].sender, data))
    /\ task' = [task EXCEPT ![t] = Idle]
    /\ UNCHANGED <<logVars, presented, nev, sent, inbound, ncalls, passed, pushed,
                   delivered>>

NextSend ==
    \/ \E t \in TaskIds, c \in Senders, r \in Rooms : SendBegin(t, c[1], c[2], r)
    \/ \E t \in TaskIds : SendRate(t)
    \/ \E t \in TaskIds : SendMember(t)
    \/ \E t \in TaskIds, accepted \in BOOLEAN : SendStore(t, accepted)

SpecSend == InitSend /\ [][NextSend]_vars

\* ================================================================ claims
Listed(cu, u, s) == u \in DOMAIN cu /\ \E i \in 1..Len(cu[u]) : cu[u][i] = s
Registered(u, s) == Listed(connected_user, u, s)

\* The step in which the connect handler of s ends.
HandshakeEnds(s) == hs[s] = "none" /\ hs'[s] # "none"

C3_ValidHandshakeAccepted ==
    [][\A s \in Sids :
          (HandshakeEnds(s) /\ presented'[s] \in Users) =>
              LET u == presented'[s] IN
              /\ hs'[s] = "accepted"
              /\ <<u, s>> \in session'
              /\ presence'[u] = "online"
              /\ Listed(connected_user', u, s)
              /\ emitted' # <<>>
              /\ emitted'[Len(emitted')] =
                     [ev |-> "user_online", data |-> [user_id |-> u],
                      to |-> {x \in Sids : conn'[x] = "open"} \ {s}]]_vars

\* C4: after the handshake of user u, queue:{u} is empty and every envelope
\* that was in it has been emitted as `message` to the new connection alone.
C4_HandshakeDrainsQueue ==
    [][\A s \in Sids :
          (HandshakeEnds(s) /\ presented'[s] \in Users) =>
              LET u == presented'[s] IN
              /\ queue'[u] = <<>>
              /\ \A i \in 1..Len(queue[u]) :
                     \E j \in 1..Len(emitted') :
                         emitted'[j] = [ev |-> "message",
                                        data |-> json_loads(queue[u][i]),
                                        to |-> {s}]]_vars

\* C5: a handshake whose token is missing, invalid, expired or without a
\* subject closes the connection and touches nothing: no session key, no
\* presence key, no registry entry, no drain, no emit.
C5_BadHandshakeRefused ==
    [][\A s \in Sids :
          (HandshakeEnds(s) /\ presented'[s] \in {"missing", "invalid"}) =>
              /\ hs'[s] = "refused"
              /\ conn'[s] = "closed"
              /\ emitted' = <<>>
              /\ UNCHANGED <<session, presence, connected_user, queue>>]_vars

\* Both kinds of bad handshake have been refused.
C5_Witness ==
    \E s, t \in Sids :
        /\ hs[s] = "refused" /\ presented[s] = "missing"
        /\ hs[t] = "refused" /\ presented[t] = "invalid"

\* C6: for every user and every rate window, whatever the interleaving of
\* the user's concurrent rate checks, at most MAX_MESSAGES_PER_MINUTE of them
\* pass (return True) within the window.
C6_RateWindowBound ==
    \A u \in Users : passed[u] <= MAX_MESSAGES_PER_MINUTE

\* C7: a send_message on a connection whose handshake carried a valid token
\* and which has already sent MAX_MESSAGES_PER_MINUTE messages gets
\* error{"Rate limit exceeded"} on that connection alone; nothing is
\* persisted or broadcast, the connection stays open, the counter stays.
C7_RateLimitedSendRefused ==
    [][\A s \in Sids :
          (sent'[s] = sent[s] + 1 /\ presented[s] \in Users
           /\ sent[s] >= MAX_MESSAGES_PER_MINUTE) =>
              /\ emitted' = <<[ev |-> "error",
                              data |-> [message |-> "Rate limit exceeded"],
                              to |-> {s}]>>
              /\ conn'[s] = "open"
              /\ UNCHANGED <<messages, ratelimit>>]_vars

\* A send_message event of connection s for room r, from a connection whose
\* handshake carried a valid token of a member of r, within the rate limit.
MemberSends(s, r) ==
    /\ sent'[s] = sent[s] + 1
    /\ conn[s] = "open"
    /\ presented[s] \in Users
    /\ <<r, presented[s]>> \in room_members
    /\ sent[s] < MAX_MESSAGES_PER_MINUTE

\* C8: every envelope appended to queue:{U} is handed out by the drain
\* exactly once, whatever the interleaving of enqueues and drains of U: per
\* user and message, the envelopes pushed are those still queued plus those
\* returned by a drain (none dropped), and none is returned twice.
C8_EnvelopeExactlyOnce ==
    \A u \in Users, i \in MsgIds :
        /\ delivered[u][i] <= 1
        /\ pushed[u][i] = delivered[u][i] + InQueue(queue[u], i)

\* C9: when a member's send_message is persisted in room r, every member of
\* r who is online (has a live authenticated connection) gets a `message`
\* emission for it on at least one of their connections, joined or not.
C9_OnlineMembersReceive ==
    [][\A s \in Sids, r \in Rooms :
          MemberSends(s, r) =>
              \A s2 \in Sids :
                  (conn[s2] = "open" /\ presented[s2] \in Users
                   /\ <<r, presented[s2]>> \in room_members) =>
                      /\ Len(emitted') = 1
                      /\ emitted'[1].ev = "message"
                      /\ \E s3 \in emitted'[1].to :
                             presented[s3] = presented[s2]]_vars

\* C10: when a member S's send_message is persisted in room r, queue:{m}
\* gains exactly one envelope of the message for every repository member m
\* of r other than S without a presence key, and nothing for anyone else.
C10_OfflineMembersEnqueued ==
    [][\A s \in Sids, r \in Rooms :
          MemberSends(s, r) =>
              \A m \in Users :
                  IF /\ <<r, m>> \in room_members
                     /\ m # presented[s]
                     /\ presence[m] = None
                  THEN /\ Len(queue'[m]) = Len(queue[m]) + 1
                       /\ json_loads(Head(queue'[m])).sender_id = presented[s]
                       /\ Tail(queue'[m]) = queue[m]
                  ELSE queue'[m] = queue[m]]_vars

\* C11: every offline member who got an envelope enqueued for a message has
\* a row in notifications with notification_type "new_message" and
\* reference_id the id of that message.
C11_EnqueueHasNotification ==
    \A u \in Users, i \in MsgIds :
        pushed[u][i] > 0 =>
            \E n \in notifications :
                /\ n.user_id = u
                /\ n.notification_type = "new_message"
                /\ n.reference_id = i

\* The membership check of u on r returns in this step.
MembershipReturns(u, r) ==
    /\ returned' # returned
    /\ returned'.fn = "_check_room_membership"
    /\ returned'.user = u
    /\ returned'.room = r

\* C12: when room_members:{R} lists U and the repository has no row (R, U),
\* the membership check of U on R answers false (so send_message and
\* join_room are refused) and leaves the cache of R rebuilt from the
\* repository.
C12_RepositoryWinsOverCache ==
    [][\A u \in Users, r \in Rooms :
          (MembershipReturns(u, r) /\ u \in members_cache[r]
           /\ <<r, u>> \notin room_members) =>
              /\ returned'.ret = FALSE
              /\ members_cache'[r] = MembersOf(World, r)]_vars

\* C13: when the repository has the row (R, U), the membership check of U
\* on R answers true, with room_members:{R} absent and with it present but
\* without U.
C13_MemberNeverRefusedByCache ==
    [][\A u \in Users, r \in Rooms :
          (MembershipReturns(u, r) /\ <<r, u>> \in room_members) =>
              returned'.ret = TRUE]_vars

\* MessageService.edit_message(m, u, ...) returns in this step.
EditReturns(m, u) ==
    /\ returned' # returned
    /\ returned'.fn = "edit_message"
    /\ returned'.message = m
    /\ returned'.user = u

\* C15: once delete(m, u) has succeeded, a later edit(m, u, c) by the owner
\* returns nothing and leaves the row as the delete left it (is_deleted
\* true, content null).
C15_DeleteIsAbsorbing ==
    [][\A m \in 1..Len(messages), u \in Users :
          (EditReturns(m, u) /\ messages[m].sender_id = u
           /\ messages[m].is_deleted) =>
              /\ returned'.ret = FALSE
              /\ messages' = messages]_vars

\* C16: edit(m, u, c) run a second time leaves every row as the first run
\* left it, updated_at of the edited row aside.
C16_EditIdempotent ==
    [][\A m \in 1..Len(messages) :
          (\E u \in Users : EditReturns(m, u) /\ returned'.repeat) =>
              /\ returned'.ret = TRUE
              /\ messages' = [messages EXCEPT ![m].updated_at = returned'.call]]_vars

\* The same successful edit has just run twice in a row.
C16_Witness ==
    /\ returned.fn = "edit_message"
    /\ returned.repeat
    /\ returned.ret
    /\ messages[returned.message].content = returned.content
    /\ messages[returned.message].is_edited

\* C17: a user whose last typing event in a room was a typing_start more
\* than TYPING_TIMEOUT ago is not in typing:{r}, whatever the other users
\* of the room have sent since.
C17_TypingExpires ==
    \A r \in Rooms, u \in Users :
        (typed[r][u].on /\ typed[r][u].age > TYPING_TIMEOUT) =>
            u \notin typing[r].members

\* An inbound event of connection s is handled in this step.
InboundStep(s) == nev' = nev + 1 /\ inbound'.sid = s

\* The event lacks a field its handler requires.
MissingField(i) ==
    IF i.ev \in {"join_room", "leave_room", "send_message", "typing_start",
                 "typing_stop"}
    THEN i.data.room_id = None
    ELSE IF i.ev = "edit_message"
    THEN i.data.message_id = 0 \/ i.data.content = None
    ELSE i.ev = "delete_message" /\ i.data.message_id = 0

\* The handler answered with one error, to connection s and nobody else.
ErrorTo(em, s) == Len(em) = 1 /\ em[1].ev = "error" /\ em[1].to = {s}

\* Connection s asks to edit or delete a stored message that the user of
\* its handshake did not send.
ForeignChange(i, s) ==
    /\ i.sid = s
    /\ i.ev \in {"edit_message", "delete_message"}
    /\ ~MissingField(i)
    /\ presented[s] \in Users
    /\ i.data.message_id \in 1..Len(messages)
    /\ messages[i.data.message_id].sender_id # presented[s]

\* C14: edit_message and delete_message from a user who is not the sender
\* of the message leave the stored rows as they are, broadcast nothing and
\* answer with an error to the originating connection alone.
C14_ForeignChangeRefused ==
    [][\A s \in Sids :
          (InboundStep(s) /\ ForeignChange(inbound', s)) =>
              /\ messages' = messages
              /\ ErrorTo(emitted', s)]_vars

\* A foreign edit has just been refused, the other connection open to hear
\* a broadcast had there been one.
C14_Witness ==
    /\ inbound.ev = "edit_message"
    /\ ForeignChange(inbound, inbound.sid)
    /\ ErrorTo(emitted, inbound.sid)
    /\ \A s \in Sids : conn[s] = "open"

\* C18: an inbound event on a connection without a registry entry gets that
\* connection disconnected at once and does nothing else: no store changes,
\* nothing emitted.
C18_UnregisteredEventDisconnects ==
    [][\A s \in Sids :
          (InboundStep(s) /\ _get_user_id_from_sid(World, s) = None) =>
              /\ conn'[s] = "closed"
              /\ emitted' = <<>>
              /\ UNCHANGED <<redisVars, dbVars, sio_rooms>>]_vars

\* C19: a handler that stops for a missing required field or a missing
\* session answers with an error to the originating connection alone.
C19_StopsAnswerWithError ==
    [][\A s \in Sids :
          (/\ InboundStep(s)
           /\ \/ MissingField(inbound')
              \/ _get_user_id_from_sid(World, s) = None) =>
              ErrorTo(emitted', s)]_vars

TransportCloses(s, u) ==
    /\ conn[s] = "open"
    /\ conn'[s] = "closed"
    /\ presented[s] = u

\* Another connection of u is still open.
Remaining(s, u) == \E s2 \in Sids \ {s} : conn[s2] = "open" /\ presented[s2] = u

\* The emissions of the last handler that carry event ev.
Emissions(em, ev) == {i \in 1..Len(em) : em[i].ev = ev}

\* C21: on transport close of connection s of user u, s leaves the registry
\* and session:{u}:{s} goes; then, with no connection of u left, presence:{u}
\* goes and user_offline{u} is broadcast, and with one left presence:{u}
\* stays and no user_offline is emitted.
C21_CloseDeregisters ==
    [][\A s \in Sids, u \in Users :
          TransportCloses(s, u) =>
              /\ ~Listed(connected_user', u, s)
              /\ <<u, s>> \notin session'
              /\ IF Remaining(s, u)
                 THEN /\ presence'[u] = presence[u]
                      /\ Emissions(emitted', "user_offline") = {}
                 ELSE /\ presence'[u] = None
                      /\ \E i \in Emissions(emitted', "user_offline") :
                             /\ emitted'[i].data = [user_id |-> u]
                             /\ {x \in Sids \ {s} : conn[x] = "open"}
                                    \subseteq emitted'[i].to]_vars

\* Connection s, joined to room r by the event before, sends into r.
JoinedThenSends(s, r) ==
    /\ inbound.ev = "join_room"
    /\ inbound.sid = s
    /\ inbound.data.room_id = r
    /\ MemberSends(s, r)
    /\ inbound'.ev = "send_message"
    /\ inbound'.data.room_id = r

\* C22: the `message` broadcast of a send_message in room r reaches every
\* connection joined to r once (one emission, addressed to all of them), the
\* sender's own joined connection included.
C22_BroadcastOncePerConnection ==
    [][\A s \in Sids, r \in Rooms :
          JoinedThenSends(s, r) =>
              /\ Cardinality(Emissions(emitted', "message")) = 1
              /\ \A i \in Emissions(emitted', "message") :
                     /\ s \in emitted'[i].to
                     /\ emitted'[i].to =
                            {x \in sio_rooms'[r] : conn'[x] = "open"}]_vars

\* Exactly one emission of ev, carrying data, went out in the last handler,
\* and it reached the connections of scope other than s.
OneEmission(em, ev, data, scope, s) ==
    /\ Cardinality(Emissions(em, ev)) = 1
    /\ \A i \in Emissions(em, ev) :
           em[i].data = data /\ em[i].to = scope \ {s}

Open == {x \in Sids : conn[x] = "open"}

\* An event of connection s that asks for a room r, from a connection whose
\* handshake carried a valid token of a member of r.
MemberEvent(s, ev, r) ==
    /\ InboundStep(s)
    /\ inbound'.ev = ev
    /\ inbound'.data.room_id = r
    /\ presented[s] \in Users
    /\ <<r, presented[s]>> \in room_members

\* C23: user_typing, user_stopped_typing, user_joined_room,
\* user_status_changed and user_online go to every connection in scope (the
\* room, or the namespace) but the originating one, other connections of the
\* same user included.
C23_SkipOriginatorOnly ==
    [][\A s \in Sids :
          /\ \A r \in Rooms :
                 /\ MemberEvent(s, "typing_start", r) =>
                        OneEmission(emitted', "user_typing",
                                    [user_id |-> presented[s], room_id |-> r],
                                    sio_rooms'[r] \cap Open, s)
                 /\ MemberEvent(s, "typing_stop", r) =>
                        OneEmission(emitted', "user_stopped_typing",
                                    [user_id |-> presented[s], room_id |-> r],
                                    sio_rooms'[r] \cap Open, s)
                 /\ MemberEvent(s, "join_room", r) =>
                        OneEmission(emitted', "user_joined_room",
                                    [user_id |-> presented[s], room_id |-> r],
                                    sio_rooms'[r] \cap Open, s)
          /\ (/\ InboundStep(s)
              /\ inbound'.ev = "update_status"
              /\ inbound'.data.status \in Statuses
              /\ presented[s] \in Users) =>
                 OneEmission(emitted', "user_status_changed",
                             [user_id |-> presented[s],
                              status |-> inbound'.data.status], Open, s)
          /\ (HandshakeEnds(s) /\ presented'[s] \in Users) =>
                 OneEmission(emitted', "user_online",
                             [user_id |-> presented'[s]],
                             {x \in Sids : conn'[x] = "open"}, s)]_vars

\* C25: a join_room of a member for room r sends user_joined_room to the
\* connections already in r, not to the joining one, and room_joined to the
\* joining connection and no other.
C25_JoinConfirmsToSelf ==
    [][\A s \in Sids, r \in Rooms :
          MemberEvent(s, "join_room", r) =>
              /\ OneEmission(emitted', "user_joined_room",
                             [user_id |-> presented[s], room_id |-> r],
                             sio_rooms[r] \cap Open, s)
              /\ OneEmission(emitted', "room_joined", [room_id |-> r], {s},
                             None)]_vars

\* C26: update_status with a status outside the four answers with an error
\* and leaves every presence key alone; with one of the four it writes
\* presence:{user} (no key for offline) and broadcasts user_status_changed to
\* every connection but the originating one.
C26_UpdateStatusValidates ==
    [][\A s \in Sids :
          (/\ InboundStep(s)
           /\ inbound'.ev = "update_status"
           /\ presented[s] \in Users) =>
              LET u == presented[s]
                  status == inbound'.data.status
              IN IF status \notin Statuses
                 THEN ErrorTo(emitted', s) /\ presence' = presence
                 ELSE /\ presence'[u] = IF status = "offline" THEN None ELSE status
                      /\ OneEmission(emitted', "user_status_changed",
                                     [user_id |-> u, status |-> status],
                                     Open, s)]_vars

\* C27: the token a handshake is judged by is the first available of the
\* auth payload's token, the bearer credential of its Authorization entry and
\* the token query parameter: a handshake whose first available token is
\* valid is not turned away.
C27_TokenFromThreeSources ==
    [][\A s \in Sids :
          (HandshakeEnds(s) /\ presented'[s] \in Users) =>
              hs'[s] # "refused"]_vars

\* C28: a file_uploaded event of a member's connection for room r stores one
\* message, broadcasts it as `message` to the room and enqueues it for every
\* member of r without a presence key other than the sender.
C28_FileUploadedFansOut ==
    [][\A s \in Sids, r \in Rooms :
          MemberEvent(s, "file_uploaded", r) =>
              /\ Len(messages') = Len(messages) + 1
              /\ Cardinality(Emissions(emitted', "message")) = 1
              /\ \A i \in Emissions(emitted', "message") :
                     emitted'[i].to = sio_rooms[r] \cap Open
              /\ \A m \in Users :
                     (/\ <<r, m>> \in room_members
                      /\ m # presented[s]
                      /\ presence[m] = None) =>
                         Len(queue'[m]) = Len(queue[m]) + 1]_vars

\* The rows send_message handlers have stored since the process started.
Stored == {i \in 1..Len(messages) : i > Len(SeedMessages)}

\* C24: the rows one connection's send_message events put into one room
\* are in the repository in the order the events were sent, whatever the
\* interleaving of their handlers.
C24_SendOrderKept ==
    \A i, j \in Stored :
        (/\ i < j
         /\ messages[i].sender_id = messages[j].sender_id
         /\ messages[i].room_id = messages[j].room_id) =>
            messages[i].content < messages[j].content

\* The handler of task t runs its insert in this step.
StoreStep(t) == task[t].fn = "send_message" /\ task[t].pc = "store" /\ task'[t].fn = "idle"

\* C29: when the insert of send_message fails or create_message gives no
\* row back, the sender's connection gets error{"Failed to save message"}
\* and nothing else goes out: no `message`, no envelope, no notification,
\* and the insert is tried once.
C29_FailedInsertOnlyErrors ==
    [][\A t \in TaskIds :
          (/\ StoreStep(t)
           /\ \/ Len(messages') = Len(messages)
              \/ create_message(World, task[t].room, task[t].sender,
                                task[t].message.content).ret = NoMessage) =>
              /\ emitted' = <<[ev |-> "error",
                              data |-> [message |-> "Failed to save message"],
                              to |-> {task[t].sid}]>>
              /\ queue' = queue
              /\ notifications' = notifications
              /\ Len(messages') <= Len(messages) + 1]_vars

\* A handler whose insert the repository refused has answered, members of
\* the room being offline.
C29_Witness ==
    /\ ncalls > 0
    /\ Stored = {}
    /\ Len(emitted) = 1
    /\ emitted[1].data = [message |-> "Failed to save message"]
    /\ emitted[1].to # {}
    /\ \E u \in Users : presence[u] = None /\ <<"r1", u>> \in room_members

\* C30: a membership check made while the ephemeral store is failing is
\* answered from the repository: a user with a row (r, u) is admitted.
C30_StoreDownFallsBack ==
    [][\A u \in Users, r \in Rooms :
          (/\ returned' # returned
           /\ returned'.fn = "_check_room_membership, store down"
           /\ returned'.user = u
           /\ returned'.room = r
           /\ <<r, u>> \in room_members) =>
              returned'.ret = TRUE]_vars

\* check_rate_limit of user u returns in this step.
RateReturns(u) ==
    /\ returned' # returned
    /\ returned'.fn = "check_rate_limit"
    /\ returned'.user = u

\* C31: check_rate_limit run on its own: no counter, it is created at 1
\* with the window as expiry and the call passes; a counter at the limit or
\* above, the call is refused and nothing changes; otherwise the counter goes
\* up by one, its remaining time to expiry as it was, and the call passes.
C31_RateLimitReference ==
    [][\A u \in Users :
          RateReturns(u) =>
              /\ \A v \in Users \ {u} : ratelimit'[v] = ratelimit[v]
              /\ IF ratelimit[u].val = 0
                 THEN /\ ratelimit'[u] = [val |-> 1, ttl |-> RATE_WINDOW]
                      /\ returned'.ret = TRUE
                 ELSE IF ratelimit[u].val >= MAX_MESSAGES_PER_MINUTE
                 THEN /\ ratelimit'[u] = ratelimit[u]
                      /\ returned'.ret = FALSE
                 ELSE /\ ratelimit'[u] = [val |-> ratelimit[u].val + 1,
                                          ttl |-> ratelimit[u].ttl]
                      /\ returned'.ret = TRUE]_vars

\* A call has been refused at the limit, the counter having been raised
\* after part of its window had gone.
C31_Witness ==
    /\ returned.fn = "check_rate_limit"
    /\ ~returned.ret
    /\ ratelimit[returned.user].val = MAX_MESSAGES_PER_MINUTE
    /\ ratelimit[returned.user].ttl \in 1..(RATE_WINDOW - 1)

\* C34: ratelimit:{user}, when it exists, carries an expiry, whatever the
\* interleaving of concurrent check_rate_limit calls with the expiry of the
\* key (so that a refused user is let in again when the window is over).
C34_CounterAlwaysExpires ==
    \A u \in Users : ratelimit[u].val > 0 => ratelimit[u].ttl > 0

\* A PresenceService call fn for user u returns in this step.
PresenceReturns(fn, u) ==
    /\ returned' # returned
    /\ returned'.fn = fn
    /\ returned'.user = u

\* C33: while a user keeps a registered connection, presence:{u} goes only
\* when a handler takes it away (set_offline, update_status): it does not
\* expire, and the offline path does not find the user offline for that.
C33_PresenceRenewed ==
    [][\A u \in Users :
          (u \in marked /\ presence[u] # None /\ presence'[u] = None) =>
              \/ PresenceReturns("set_offline", u)
              \/ PresenceReturns("update_status", u)]_vars

\* C40: a status away or busy written by update_status is still the value
\* of presence:{u} after the handshake of another connection of u.
C40_StatusSurvivesHandshake ==
    [][\A u \in Users :
          (/\ PresenceReturns("set_online", u)
           /\ u \in marked
           /\ presence[u] \in {"away", "busy"}) =>
              presence'[u] = presence[u]]_vars

\* User u has a connection in the registry.
HasRegistered(cu, u) == \E s \in Sids : Listed(cu, u, s)

DisconnectStarts(s) == conn[s] = "open" /\ conn'[s] = "closed"

\* Every connection id is in at most one list, at most once, and no list is
\* empty.
WellFormed(cu) ==
    /\ \A u \in DOMAIN cu : cu[u] # <<>>
    /\ \A u \in DOMAIN cu : \A i, j \in 1..Len(cu[u]) : cu[u][i] = cu[u][j] => i = j
    /\ \A u, v \in DOMAIN cu : \A s \in Sids :
           (Listed(cu, u, s) /\ Listed(cu, v, s)) => u = v

\* C38: the registry is well formed, and the disconnect of connection s
\* takes s out of it and leaves every other entry as it was.
C38_RegistryWellFormed ==
    [][/\ WellFormed(connected_user')
       /\ \A s \in Sids :
              DisconnectStarts(s) =>
                  /\ \A u \in Users : ~Listed(connected_user', u, s)
                  /\ \A u \in Users, x \in Sids \ {s} :
                         Listed(connected_user', u, x) = Listed(connected_user, u, x)]_vars

\* The join_room of connection s asks for room r in this step.
JoinStep(s, r) ==
    /\ InboundStep(s)
    /\ inbound'.ev = "join_room"
    /\ inbound'.data.room_id = r

\* The join_room of s for r is one that fails: no room_id, no registered
\* user, or a user the membership check refuses.
JoinFails(s, r) ==
    \/ r = None
    \/ _get_user_id_from_sid(World, s) = None
    \/ ~_check_room_membership(World, _get_user_id_from_sid(World, s), r).ret

SendEnds(t, pc) ==
    /\ task[t].fn = "send_message"
    /\ task[t].pc = pc
    /\ task'[t].fn = "idle"

\* The one thing the handler sent is the error text, to the sender.
OnlyError(em, s, text) ==
    em = <<[ev |-> "error", data |-> [message |-> text], to |-> {s}]>>

\* C35: send_message checks the rate, then the membership, then stores,
\* then broadcasts and runs the offline path, and ends at the first step
\* that fails: a send refused by the rate check has touched nothing; a send
\* that passes it is counted there and then (the counter is set to 1, or
\* goes up by one), and when it is then refused as not a member, or its
\* insert fails, the count is not given back and nothing is stored,
\* broadcast or enqueued.
C35_StepsInOrder ==
    [][\A t \in TaskIds :
          LET u == task[t].sender
              s == task[t].sid
          IN /\ SendEnds(t, "rate") =>
                    /\ OnlyError(emitted', s, "Rate limit exceeded")
                    /\ ratelimit' = ratelimit
                    /\ members_cache' = members_cache
                    /\ messages' = messages
                    /\ queue' = queue
             /\ (/\ task[t].fn = "send_message"
                 /\ task[t].pc = "rate"
                 /\ task'[t].pc = "member") =>
                    /\ ratelimit'[u].val = IF task[t].current = 0 THEN 1
                                           ELSE ratelimit[u].val + 1
                    /\ members_cache' = members_cache
                    /\ messages' = messages
             /\ SendEnds(t, "member") =>
                    /\ OnlyError(emitted', s, "Not a member")
                    /\ ratelimit' = ratelimit
                    /\ messages' = messages
                    /\ queue' = queue
             /\ (SendEnds(t, "store") /\ Len(messages') = Len(messages)) =>
                    /\ OnlyError(emitted', s, "Failed to save message")
                    /\ ratelimit' = ratelimit
                    /\ queue' = queue]_vars

\* A send of the user without a row has been refused as not a member, the
\* user's counter having counted it.
C35_Witness ==
    /\ OnlyError(emitted, "s2", "Not a member")
    /\ ratelimit["u2"].val > 0
    /\ messages = SeedMessages

\* C36: the handshake of user u emits the envelopes of queue:{u} as
\* `message` to the new connection in the order of the list, head first:
\* enqueue pushing at the head, the envelope of the later message comes
\* before that of the earlier one.
C36_DrainHeadFirst ==
    [][\A s \in Sids :
          (HandshakeEnds(s) /\ presented'[s] \in Users) =>
              LET u == presented'[s] IN
              /\ Len(emitted') >= Len(queue[u])
              /\ \A i \in 1..Len(queue[u]) :
                     emitted'[i] = [ev |-> "message",
                                    data |-> json_loads(queue[u][i]),
                                    to |-> {s}]]_vars

\* C37: when the offline path of a message ends, every member of the room
\* without a presence key other than the sender has the envelope in the
\* queue, but for the one member whose enqueue failed.
C37_FailureLosesOneEnvelope ==
    [][\A t \in TaskIds :
          (task[t].fn = "_notify_offline_members" /\ task'[t].fn = "idle") =>
              \A m \in notify_members(World, task[t].room, task[t].sender) :
                  (presence[m] = None /\ m # task[t].user) =>
                      pushed'[m][task[t].message.id] > 0]_vars

====
